---------------------------- MODULE Spec2Model ----------------------------
(***************************************************************************)
(* Model of the LMS backend's asynchronous core:                           *)
(*   - the video transcoding task (app/tasks/video.py) as executed by the  *)
(*     Celery task queue, and the upload ingress that enqueues it          *)
(*     (app/api/v1/endpoints/upload.py);                                   *)
(*   - the realtime ConnectionManager and the two websocket handlers       *)
(*     (app/api/v1/endpoints/websocket.py).                                *)
(*   - the progress endpoints (app/api/v1/endpoints/progress.py) and the   *)
(*     progress_update message of the progress websocket, over the         *)
(*     course_progress table (app/db/models/progress.py).                  *)
(* The parts share no state; SpecVideo, SpecRegistry, SpecProgress and     *)
(* SpecPaths each move one part and leave the others at their initial      *)
(* value.                                                                  *)
(***************************************************************************)
EXTENDS Integers, Sequences, FiniteSets, TLC

VARIABLES
    jobs,               \* task id -> task request, position and locals
    content_metadata,   \* CourseContent.content_metadata, per content row
    publishLog,         \* history: payloads passed to the UPDATE, per row
    conn,               \* websocket -> handler position and peer state
    active_connections, \* ConnectionManager.active_connections
    course_connections, \* ConnectionManager.course_connections
    sender,             \* in-progress send_*_message and broadcast calls
    connect_result,     \* outcome of the latest ConnectionManager.connect call
    reply,              \* the client message the latest step handled, and its answer
    progress,           \* course_progress rows of one (user, content) pair
    req,                \* progress requests and messages being handled
    hist,               \* history: what the updates applied so far carried
    paths,              \* one update sequence applied through both ingresses
    preview,            \* the generate_video_preview task: request and position
    search_queue,       \* index_content_task messages on the task queue
    objects,            \* objects the upload ingress wrote to the object store
    response,           \* the latest upload request and its response
    stream              \* the latest stream request and its response

videoVars == <<jobs, content_metadata, publishLog>>
registryVars == <<conn, active_connections, course_connections, sender,
                  connect_result, reply>>
progressVars == <<progress, req, hist, paths>>
mediaVars == <<preview, search_queue, objects, response, stream>>
vars == <<jobs, content_metadata, publishLog,
          conn, active_connections, course_connections, sender,
          connect_result, reply, progress, req, hist, paths,
          preview, search_queue, objects, response, stream>>

\* Python's None, for string-valued and for structured values
None == "None"

Null == [kind |-> "None"]

(***************************************************************************)
(* Bounds                                                                  *)
(***************************************************************************)
MaxJobs == 2
MaxConns == 2
MaxSenders == 1
MaxBucket == 2
MaxReqs == 2
MaxUpdates == 4
MaxObjects == 2
MaxByte == 12

Jobs == 1..MaxJobs
Conns == 1..MaxConns
Senders == 1..MaxSenders
Contents == {"c1", "c2"}
Users == {"u1", "u2"}
Courses == {"A", "B"}

(***************************************************************************)
(* Dictionaries (Python dict): functions with a finite domain              *)
(***************************************************************************)
EmptyDict == [k \in {} |-> Null]

DictSet(d, k, v) == [x \in (DOMAIN d) \cup {k} |-> IF x = k THEN v ELSE d[x]]

DictDel(d, k) == [x \in (DOMAIN d) \ {k} |-> d[x]]

(***************************************************************************)
(* Video pipeline                                                          *)
(***************************************************************************)
max_retries == 3

qualities == <<"1080p", "720p", "480p", "360p">>

Rungs == {qualities[i] : i \in 1..Len(qualities)}

\* the object URL the ingress stored for the upload behind task j
\* (storage names are uuid4-based, hence distinct per upload)
SourceUrl(j) == [kind |-> "source", job |-> j]

\* URL of an object uploaded by execution number n of task j; the storage
\* service names every object with a fresh uuid4
UploadedUrl(j, n, name) == [kind |-> "output", job |-> j, attempt |-> n, name |-> name]

\* result of ffmpeg.probe on the downloaded source
get_video_metadata(url) == [probe_of |-> url]

\* a cleanup that removes nothing
TemporaryDirectory_exit_keep(files) == files

\* "with tempfile.TemporaryDirectory() as temp_dir:" is left, by return or by
\* an exception: the directory and every file in it are removed
TemporaryDirectory_exit(files) == {}

IdleJob ==
    [state |-> "idle", origin |-> None, content_id |-> None, retries |-> 0,
     pc |-> None, qi |-> 0, output_urls |-> EmptyDict, thumbnail_url |-> Null,
     metadata |-> Null, executions |-> 0, steps |-> <<>>,
     source |-> Null,    \* the video_url argument
     scratch |-> {}]     \* files in the attempt's temporary directory

\* process_video_task.delay(video_url, course_id, content_id): the task
\* message as it is put on the video_processing queue
delay(j, origin, content_id) ==
    [IdleJob EXCEPT !.state = "queued", !.origin = origin,
                    !.content_id = content_id, !.source = SourceUrl(j)]

\* task ids are handed out in order
NextFree(j) ==
    /\ jobs[j].state = "idle"
    /\ \A k \in Jobs : k < j => jobs[k].state # "idle"

\* settings.MAX_UPLOAD_SIZE (2 GiB); sizes are counted in KiB
MAX_UPLOAD_SIZE == 2 * 1024 * 1024

ALLOWED_VIDEO_FORMATS == {"video/mp4", "video/webm"}

allowed_presentation_formats ==
    {"application/vnd.ms-powerpoint",
     "application/vnd.openxmlformats-officedocument.presentationml.presentation",
     "application/pdf"}

\* the uploads a client can send: the content_type form field, the file
\* part's MIME type and its size
UploadFiles ==
    [content_type : {"video", "presentation", "audio"},
     mime : {"video/mp4", "application/pdf", "text/plain"},
     size : {1024, MAX_UPLOAD_SIZE, MAX_UPLOAD_SIZE + 1}]

\* an upload that passes every check
VideoUpload == [content_type |-> "video", mime |-> "video/mp4", size |-> 1024]

\* the checks without the size ceiling
validate_nosize(f) ==
    IF f.content_type \notin {"video", "presentation"} THEN 400
    ELSE IF f.content_type = "video" /\ f.mime \notin ALLOWED_VIDEO_FORMATS
    THEN 400
    ELSE IF f.content_type = "presentation"
            /\ f.mime \notin allowed_presentation_formats
    THEN 400
    ELSE 200

\* the checks of upload_content in their order: the status of the
\* HTTPException they raise, 200 when all pass
validate(f) ==
    IF f.content_type \notin {"video", "presentation"} THEN 400
    ELSE IF f.content_type = "video" /\ f.mime \notin ALLOWED_VIDEO_FORMATS
    THEN 400
    ELSE IF f.content_type = "presentation"
            /\ f.mime \notin allowed_presentation_formats
    THEN 400
    ELSE IF f.size # 0 /\ f.size > MAX_UPLOAD_SIZE THEN 413
    ELSE 200

\* the object StorageService.upload_content writes for upload f
StoredObject(url, f) ==
    [url |-> url, content_type |-> f.content_type, mime |-> f.mime,
     size |-> f.size]

\* POST /upload/content: the checks, then StorageService.upload_content
\* (which raises 500 when the object store refuses the write), then for a
\* video process_video_task.delay(url, course_id) with (url, course_id) only
upload_content(j, f, stored) ==
    /\ NextFree(j)
    /\ (validate(f) = 200 /\ stored) => Len(objects) < MaxObjects
    /\ IF validate(f) # 200
       THEN /\ response' = [file |-> f, status |-> validate(f), state |-> None]
            /\ UNCHANGED <<jobs, objects>>
       ELSE IF ~stored
       THEN /\ response' = [file |-> f, status |-> 500, state |-> None]
            /\ UNCHANGED <<jobs, objects>>
       ELSE IF f.content_type = "video"
       THEN /\ objects' = Append(objects, StoredObject(SourceUrl(j), f))
            /\ jobs' = [jobs EXCEPT ![j] = delay(j, "upload", None)]
            /\ response' = [file |-> f, status |-> 200, state |-> "processing"]
       ELSE /\ objects' = Append(objects,
                   StoredObject([kind |-> "content", n |-> Len(objects) + 1], f))
            /\ response' = [file |-> f, status |-> 200, state |-> "complete"]
            /\ UNCHANGED jobs
    /\ UNCHANGED <<content_metadata, publishLog>>
    /\ UNCHANGED <<preview, search_queue, stream>>
    /\ UNCHANGED <<registryVars, progressVars>>

\* any other producer calling the task with its full signature
delay_with_content(j, cid) ==
    /\ NextFree(j)
    /\ jobs' = [jobs EXCEPT ![j] = delay(j, "direct", cid)]
    /\ UNCHANGED <<content_metadata, publishLog>>
    /\ UNCHANGED <<registryVars, progressVars, mediaVars>>

\* a worker of the video_processing queue takes the message and enters the
\* task body
WorkerStart(j) ==
    /\ jobs[j].state = "queued"
    /\ jobs' = [jobs EXCEPT ![j].state = "running",
                            ![j].pc = "download",
                            ![j].qi = 1,
                            ![j].output_urls = EmptyDict,
                            ![j].thumbnail_url = Null,
                            ![j].metadata = Null,
                            ![j].steps = <<>>,
                            ![j].scratch = {},
                            ![j].executions = @ + 1]
    /\ UNCHANGED <<content_metadata, publishLog>>
    /\ UNCHANGED <<registryVars, progressVars, mediaVars>>

Done(r, step) == Append(r.steps, step)

download_video(j) ==
    /\ jobs[j].state = "running" /\ jobs[j].pc = "download"
    /\ jobs' = [jobs EXCEPT ![j].pc = "probe",
                            ![j].scratch = @ \cup {"input"},
                            ![j].steps = Done(jobs[j], "download")]
    /\ UNCHANGED <<content_metadata, publishLog>>
    /\ UNCHANGED <<registryVars, progressVars, mediaVars>>

probe(j) ==
    /\ jobs[j].state = "running" /\ jobs[j].pc = "probe"
    /\ jobs' = [jobs EXCEPT ![j].pc = "rung",
                            ![j].metadata = get_video_metadata(jobs[j].source),
                            ![j].steps = Done(jobs[j], "probe")]
    /\ UNCHANGED <<content_metadata, publishLog>>
    /\ UNCHANGED <<registryVars, progressVars, mediaVars>>

\* variant: a rung whose transcode fails is skipped instead of aborting
AfterRung_besteffort(r, j) ==
    LET q == qualities[r.qi] IN
    [r EXCEPT !.output_urls = IF r.qi = 2 THEN @
                              ELSE DictSet(@, q, UploadedUrl(j, r.executions, q)),
              !.steps = IF r.qi = 2 THEN @
                        ELSE r.steps \o <<"transcode_" \o q, "upload_" \o q>>,
              !.scratch = (@ \cup {q}) \ {q},
              !.qi = IF r.qi < Len(qualities) THEN r.qi + 1 ELSE r.qi,
              !.pc = IF r.qi < Len(qualities) THEN "rung" ELSE "thumbnail"]

\* one iteration of "for quality in qualities": transcode_video, then
\* upload_transcoded_video, output_urls[quality["name"]] = url, os.remove
AfterRung(r, j) ==
    LET q == qualities[r.qi] IN
    [r EXCEPT !.output_urls = DictSet(@, q, UploadedUrl(j, r.executions, q)),
              !.steps = r.steps \o <<"transcode_" \o q, "upload_" \o q>>,
              !.scratch = (@ \cup {q}) \ {q},
              !.qi = IF r.qi < Len(qualities) THEN r.qi + 1 ELSE r.qi,
              !.pc = IF r.qi < Len(qualities) THEN "rung" ELSE "thumbnail"]

transcode_and_upload(j) ==
    /\ jobs[j].state = "running" /\ jobs[j].pc = "rung"
    /\ jobs' = [jobs EXCEPT ![j] = AfterRung(jobs[j], j)]
    /\ UNCHANGED <<content_metadata, publishLog>>
    /\ UNCHANGED <<registryVars, progressVars, mediaVars>>

\* generate_thumbnail, then upload_thumbnail
thumbnail(j) ==
    /\ jobs[j].state = "running" /\ jobs[j].pc = "thumbnail"
    /\ jobs' = [jobs EXCEPT ![j].pc = "publish",
                            ![j].thumbnail_url =
                                UploadedUrl(j, jobs[j].executions, "thumbnail"),
                            ![j].scratch = @ \cup {"thumbnail"},
                            ![j].steps = jobs[j].steps \o
                                <<"thumbnail", "upload_thumbnail">>]
    /\ UNCHANGED <<content_metadata, publishLog>>
    /\ UNCHANGED <<registryVars, progressVars, mediaVars>>

\* rows selected by WHERE CourseContent.id == content_id (no row has a
\* NULL primary key, so content_id = None selects nothing)
RowsMatched(content_id) == {c \in Contents : c = content_id}

Payload(output_urls, thumbnail_url, metadata) ==
    [processed_urls |-> output_urls, thumbnail_url |-> thumbnail_url,
     video_metadata |-> metadata]

\* variant: a field-level merge that keeps fields already present in the row
UpdateValues_merge(old, output_urls, thumbnail_url, metadata) ==
    [processed_urls |-> output_urls,
     thumbnail_url |-> IF old = Null THEN thumbnail_url ELSE old.thumbnail_url,
     video_metadata |-> metadata,
     processing_status |-> "completed"]

\* the value the UPDATE assigns to the content_metadata column of a row
\* whose previous value is old
UpdateValues(old, output_urls, thumbnail_url, metadata) ==
    [processed_urls |-> output_urls,
     thumbnail_url |-> thumbnail_url,
     video_metadata |-> metadata,
     processing_status |-> "completed"]

\* variant: an UPDATE per rung, each keeping the URL the row already has
update_content_metadata_keep(cm, content_id, output_urls, thumbnail_url, metadata) ==
    [c \in Contents |->
        IF c \in RowsMatched(content_id)
        THEN [UpdateValues(cm[c], output_urls, thumbnail_url, metadata)
                 EXCEPT !.processed_urls =
                     IF cm[c] = Null THEN @ ELSE cm[c].processed_urls]
        ELSE cm[c]]

update_content_metadata(cm, content_id, output_urls, thumbnail_url, metadata) ==
    [c \in Contents |->
        IF c \in RowsMatched(content_id)
        THEN UpdateValues(cm[c], output_urls, thumbnail_url, metadata)
        ELSE cm[c]]

\* update_content_metadata commits and the task returns {"status": "success"}
publish(j) ==
    /\ jobs[j].state = "running" /\ jobs[j].pc = "publish"
    /\ content_metadata' =
           update_content_metadata(content_metadata, jobs[j].content_id,
                                   jobs[j].output_urls, jobs[j].thumbnail_url,
                                   jobs[j].metadata)
    /\ publishLog' =
           [c \in Contents |->
               IF c \in RowsMatched(jobs[j].content_id)
               THEN Append(publishLog[c],
                           Payload(jobs[j].output_urls, jobs[j].thumbnail_url,
                                   jobs[j].metadata))
               ELSE publishLog[c]]
    /\ jobs' = [jobs EXCEPT ![j].state = "success", ![j].pc = None,
                            ![j].scratch = TemporaryDirectory_exit(@),
                            ![j].steps = Done(jobs[j], "publish")]
    /\ UNCHANGED <<registryVars, progressVars, mediaVars>>

\* variant: the cap compared with >= (one execution fewer)
retry_offbyone(r) ==
    LET retries == r.retries + 1 IN
    IF retries >= max_retries
    THEN [r EXCEPT !.state = "failure", !.pc = None, !.qi = 0,
                   !.output_urls = EmptyDict, !.thumbnail_url = Null,
                   !.metadata = Null, !.steps = <<>>,
                   !.scratch = TemporaryDirectory_exit(@)]
    ELSE [r EXCEPT !.state = "queued", !.retries = retries, !.pc = None,
                   !.qi = 0, !.output_urls = EmptyDict,
                   !.thumbnail_url = Null, !.metadata = Null, !.steps = <<>>,
                   !.scratch = TemporaryDirectory_exit(@)]

\* self.retry(exc=e, countdown=60, max_retries=3): Celery re-queues the task
\* with request.retries + 1 unless that exceeds max_retries, in which case
\* the exception is re-raised and the task ends in FAILURE (on_failure: pass)
retry(r) ==
    LET retries == r.retries + 1 IN
    IF retries > max_retries
    THEN [r EXCEPT !.state = "failure", !.pc = None, !.qi = 0,
                   !.output_urls = EmptyDict, !.thumbnail_url = Null,
                   !.metadata = Null, !.steps = <<>>,
                   !.scratch = TemporaryDirectory_exit(@)]
    ELSE [r EXCEPT !.state = "queued", !.retries = retries, !.pc = None,
                   !.qi = 0, !.output_urls = EmptyDict,
                   !.thumbnail_url = Null, !.metadata = Null, !.steps = <<>>,
                   !.scratch = TemporaryDirectory_exit(@)]

\* the step the task is at raises (download, probe, transcode, upload,
\* thumbnail, or the UPDATE, which is rolled back): except Exception -> retry
StepRaises(j) ==
    /\ jobs[j].state = "running"
    /\ jobs' = [jobs EXCEPT ![j] = retry(jobs[j])]
    /\ UNCHANGED <<content_metadata, publishLog>>
    /\ UNCHANGED <<registryVars, progressVars, mediaVars>>

\* the broker delivers the message of running task k a second time (it was
\* not acknowledged in time): a second attempt with the same arguments and
\* the same request.retries runs beside the first
redeliver(j, k) ==
    /\ NextFree(j)
    /\ jobs[k].state = "running"
    /\ jobs' = [jobs EXCEPT ![j] =
           [IdleJob EXCEPT !.state = "queued", !.origin = jobs[k].origin,
                           !.content_id = jobs[k].content_id,
                           !.source = jobs[k].source,
                           !.retries = jobs[k].retries]]
    /\ UNCHANGED <<content_metadata, publishLog>>
    /\ UNCHANGED <<registryVars, progressVars, mediaVars>>

NextVideo ==
    \/ \E j \in Jobs : upload_content(j, VideoUpload, TRUE)
    \/ \E j \in Jobs, cid \in Contents : delay_with_content(j, cid)
    \/ \E j \in Jobs : WorkerStart(j)
    \/ \E j \in Jobs : download_video(j)
    \/ \E j \in Jobs : probe(j)
    \/ \E j \in Jobs : transcode_and_upload(j)
    \/ \E j \in Jobs : thumbnail(j)
    \/ \E j \in Jobs : publish(j)
    \/ \E j \in Jobs : StepRaises(j)

(***************************************************************************)
(* generate_video_preview                                                  *)
(***************************************************************************)
preview_max_retries == 2

\* generate_video_preview: not queued yet
IdlePreview ==
    [state |-> "idle", retries |-> 0, pc |-> None, scratch |-> {},
     preview_url |-> Null]

\* generate_video_preview.delay(video_url, course_id)
preview_delay ==
    /\ preview.state = "idle"
    /\ preview' = [IdlePreview EXCEPT !.state = "queued"]
    /\ UNCHANGED <<search_queue, objects, response, stream>>
    /\ UNCHANGED <<videoVars, registryVars, progressVars>>

\* a worker takes the message and enters the task body
PreviewStart ==
    /\ preview.state = "queued"
    /\ preview' = [preview EXCEPT !.state = "running", !.pc = "download",
                                  !.scratch = {}]
    /\ UNCHANGED <<search_queue, objects, response, stream>>
    /\ UNCHANGED <<videoVars, registryVars, progressVars>>

\* download_video(video_url, input_path)
preview_download ==
    /\ preview.state = "running" /\ preview.pc = "download"
    /\ preview' = [preview EXCEPT !.pc = "ffmpeg",
                                  !.scratch = @ \cup {"input"}]
    /\ UNCHANGED <<search_queue, objects, response, stream>>
    /\ UNCHANGED <<videoVars, registryVars, progressVars>>

\* ffmpeg writes the first seconds of the input to preview_path
preview_ffmpeg ==
    /\ preview.state = "running" /\ preview.pc = "ffmpeg"
    /\ preview' = [preview EXCEPT !.pc = "upload",
                                  !.scratch = @ \cup {"preview"}]
    /\ UNCHANGED <<search_queue, objects, response, stream>>
    /\ UNCHANGED <<videoVars, registryVars, progressVars>>

\* upload_transcoded_video(..., "preview"), then return
preview_upload ==
    /\ preview.state = "running" /\ preview.pc = "upload"
    /\ preview' = [preview EXCEPT
                       !.state = "success", !.pc = None,
                       !.preview_url = [kind |-> "preview",
                                        attempt |-> preview.retries + 1],
                       !.scratch = TemporaryDirectory_exit(@)]
    /\ UNCHANGED <<search_queue, objects, response, stream>>
    /\ UNCHANGED <<videoVars, registryVars, progressVars>>

\* the step the task is at raises: except Exception ->
\* self.retry(exc=e, countdown=60, max_retries=2)
PreviewRaises ==
    /\ preview.state = "running"
    /\ preview' =
           IF preview.retries + 1 > preview_max_retries
           THEN [preview EXCEPT !.state = "failure", !.pc = None,
                                !.scratch = TemporaryDirectory_exit(@)]
           ELSE [preview EXCEPT !.state = "queued", !.pc = None,
                                !.retries = @ + 1,
                                !.scratch = TemporaryDirectory_exit(@)]
    /\ UNCHANGED <<search_queue, objects, response, stream>>
    /\ UNCHANGED <<videoVars, registryVars, progressVars>>

NextPreview ==
    \/ preview_delay
    \/ PreviewStart
    \/ preview_download
    \/ preview_ffmpeg
    \/ preview_upload
    \/ PreviewRaises

(***************************************************************************)
(* Realtime connection registry                                            *)
(***************************************************************************)
\* rows of the enrollments table (fixed while connections come and go)
Enrolled == {<<"u1", "A">>, <<"u1", "B">>, <<"u2", "A">>}

\* Python list operations
InList(l, x) == \E i \in 1..Len(l) : l[i] = x

FirstIndex(l, x) == CHOOSE i \in 1..Len(l) : l[i] = x /\ \A k \in 1..(i - 1) : l[k] # x

\* list.remove(x): drops the first occurrence
ListRemove(l, x) ==
    LET i == FirstIndex(l, x) IN SubSeq(l, 1, i - 1) \o SubSeq(l, i + 1, Len(l))

ListSet(l) == {l[i] : i \in 1..Len(l)}

NewConn ==
    [state |-> "new", channel |-> None, user |-> None, course |-> None,
     broken |-> FALSE, close_code |-> 0]

ClosedConn ==
    [state |-> "closed", channel |-> None, user |-> None, course |-> None,
     broken |-> FALSE, close_code |-> 0]

\* websocket.close(code=..., reason=...) in place of the handshake's accept
Refused(code) == [ClosedConn EXCEPT !.close_code = code]

\* the step handled no client message
NoReply == [request |-> None, sent |-> None]

IdleSender ==
    [pc |-> "idle", kind |-> None, key |-> None, idx |-> 0, cur |-> 0,
     detached |-> FALSE,
     visited |-> {},         \* broadcast: buckets the values() iterator yielded
     used |-> 0,             \* broadcast: dict size when the iterator was made
     got |-> {},             \* history: connections this call wrote to
     failed |-> {},          \* history: connections whose write raised
     stayed |-> {},          \* history: registered since the call began
     removed_live |-> FALSE, \* history: it removed one whose write had not failed
     interfered |-> FALSE]   \* history: a handler ran since the call began

Reqs == 1..MaxReqs

\* a request slot: the handler's position, the object its SELECT loaded,
\* whether that object's row was deleted since, and how the handler ended
IdleReq ==
    [pc |-> "idle", path |-> None, obj |-> Null, stale |-> FALSE,
     status |-> None, event |-> Null]

NoHistory == [ever100 |-> FALSE]

\* both tables empty, no update given yet
NoPaths ==
    [rest |-> <<>>, ws |-> <<>>, rest_status |-> None, ws_status |-> None,
     n |-> 0]

\* no task queued, no content row processed, no connection registered, no
\* progress row
Init ==
    /\ jobs = [j \in Jobs |-> IdleJob]
    /\ content_metadata = [c \in Contents |-> Null]
    /\ publishLog = [c \in Contents |-> <<>>]
    /\ conn = [c \in Conns |-> NewConn]
    /\ active_connections = EmptyDict
    /\ course_connections = EmptyDict
    /\ sender = [s \in Senders |-> IdleSender]
    /\ connect_result = None
    /\ reply = NoReply
    /\ progress = <<>>
    /\ req = [r \in Reqs |-> IdleReq]
    /\ hist = NoHistory
    /\ paths = NoPaths
    /\ preview = IdlePreview
    /\ search_queue = <<>>
    /\ objects = <<>>
    /\ response = Null
    /\ stream = Null

\* websocket.accept(), the first statement of ConnectionManager.connect: the
\* handshake of a websocket is accepted once; on a websocket that was
\* accepted before, the call raises
accept(c) == IF conn[c].state = "new" THEN "accepted" ELSE "raised"

\* ConnectionManager.connect, after websocket.accept()
connect(ac, websocket, user_id) ==
    LET ac1 == IF user_id \notin DOMAIN ac THEN DictSet(ac, user_id, <<>>) ELSE ac
    IN  [ac1 EXCEPT ![user_id] = Append(@, websocket)]

\* ConnectionManager.disconnect
disconnect(ac, websocket, user_id) ==
    IF user_id \in DOMAIN ac
    THEN LET l == IF InList(ac[user_id], websocket)
                  THEN ListRemove(ac[user_id], websocket)
                  ELSE ac[user_id]
         IN  IF l = <<>> THEN DictDel(ac, user_id)
             ELSE [ac EXCEPT ![user_id] = l]
    ELSE ac

\* add_course_connection that ignores which course it was given
add_course_connection_shared(cc, websocket, course_id) ==
    LET cc1 == IF course_id \notin DOMAIN cc THEN DictSet(cc, course_id, <<>>) ELSE cc
    IN  [k \in DOMAIN cc1 |-> Append(cc1[k], websocket)]

\* ConnectionManager.add_course_connection
add_course_connection(cc, websocket, course_id) ==
    LET cc1 == IF course_id \notin DOMAIN cc THEN DictSet(cc, course_id, <<>>) ELSE cc
    IN  [cc1 EXCEPT ![course_id] = Append(@, websocket)]

\* ConnectionManager.remove_course_connection
remove_course_connection(cc, websocket, course_id) ==
    IF course_id \in DOMAIN cc
    THEN LET l == IF InList(cc[course_id], websocket)
                  THEN ListRemove(cc[course_id], websocket)
                  ELSE cc[course_id]
         IN  IF l = <<>> THEN DictDel(cc, course_id)
             ELSE [cc EXCEPT ![course_id] = l]
    ELSE cc

InBucket(m, c) == \E k \in DOMAIN m : InList(m[k], c)

\* A send suspended on "await connection.send_text" holds an iterator over
\* the list object that was the bucket when the loop began.  A handler that
\* runs meanwhile changes what the send sees, and a bucket deleted from the
\* dict (always an empty list) leaves the iterator on that dead list.
SendersAfter(ac2, cc2) ==
    [s \in Senders |->
        IF sender[s].pc # "idle"
        THEN [sender[s] EXCEPT
                 !.interfered = TRUE,
                 !.detached = @ \/ (sender[s].key \notin
                     DOMAIN (IF sender[s].kind = "course" THEN cc2 ELSE ac2)),
                 !.visited = @ \cap DOMAIN ac2,
                 !.stayed = {c \in @ : InBucket(ac2, c)}]
        ELSE sender[s]]

\* websocket objects are created in order
NextConn(c) ==
    /\ conn[c].state = "new"
    /\ \A k \in Conns : k < c => conn[k].state # "new"

\* the tokens a client can present: none, one that does not verify, and
\* the access token of each user
Tokens == {"", "garbage"} \cup Users

\* get_user_from_token: the user of a token that verifies, None on any failure
get_user_from_token_lenient(token) == IF token \in Users THEN token ELSE "u1"

get_user_from_token(token) == IF token \in Users THEN token ELSE None

\* select(Enrollment) ... scalar_one_or_none() that finds a row for any pair
enrollment_any(user_id, course_id) == TRUE

\* select(Enrollment).where(user_id, course_id) ... scalar_one_or_none()
enrollment(user_id, course_id) == <<user_id, course_id>> \in Enrolled

\* /ws/notifications up to the receive loop: close(4001) without a token or
\* with one that names no user, else manager.connect(websocket, user.id)
websocket_notifications_connect(c, token) ==
    /\ UNCHANGED <<videoVars, progressVars, mediaVars>>
    /\ NextConn(c)
    /\ reply' = NoReply
    /\ LET user == IF token = "" THEN None ELSE get_user_from_token(token)
       IN  IF user = None
           THEN /\ conn' = [conn EXCEPT ![c] = Refused(4001)]
                /\ UNCHANGED <<connect_result, active_connections,
                               course_connections, sender>>
           ELSE /\ conn' = [conn EXCEPT ![c] =
                       [NewConn EXCEPT !.state = "open",
                                       !.channel = "notifications",
                                       !.user = user]]
                /\ connect_result' = accept(c)
                /\ active_connections' = connect(active_connections, c, user)
                /\ UNCHANGED course_connections
                /\ sender' = SendersAfter(active_connections', course_connections')

\* /ws/progress/{course_id} up to the receive loop: close(4001) without a
\* token or with one that names no user, close(4003) when the user has no
\* enrollment in the course, else manager.connect, then
\* manager.add_course_connection
websocket_progress_connect(c, token, course) ==
    /\ UNCHANGED <<videoVars, progressVars, mediaVars>>
    /\ NextConn(c)
    /\ reply' = NoReply
    /\ LET user == IF token = "" THEN None ELSE get_user_from_token(token)
       IN  IF user = None
           THEN /\ conn' = [conn EXCEPT ![c] = Refused(4001)]
                /\ UNCHANGED <<connect_result, active_connections,
                               course_connections, sender>>
           ELSE IF ~enrollment(user, course)
           THEN /\ conn' = [conn EXCEPT ![c] = Refused(4003)]
                /\ UNCHANGED <<connect_result, active_connections,
                               course_connections, sender>>
           ELSE /\ conn' = [conn EXCEPT ![c] =
                       [NewConn EXCEPT !.state = "open", !.channel = "progress",
                                       !.user = user, !.course = course]]
                /\ connect_result' = accept(c)
                /\ active_connections' = connect(active_connections, c, user)
                /\ course_connections' =
                       add_course_connection(course_connections, c, course)
                /\ sender' = SendersAfter(active_connections', course_connections')

\* notification channel, {"type": "subscribe_course"}: with an enrollment
\* add_course_connection and a subscription_confirmed message, without one
\* nothing
subscribe_course(c, course) ==
    /\ UNCHANGED <<videoVars, progressVars, mediaVars>>
    /\ conn[c].state = "open" /\ conn[c].channel = "notifications"
    /\ course \in DOMAIN course_connections
          => Len(course_connections[course]) < MaxBucket
    /\ UNCHANGED <<conn, active_connections, connect_result>>
    /\ IF enrollment(conn[c].user, course)
       THEN /\ course_connections' =
                   add_course_connection(course_connections, c, course)
            /\ reply' = [request |-> "subscribe_course",
                         sent |-> "subscription_confirmed"]
            /\ sender' = SendersAfter(active_connections', course_connections')
       ELSE /\ reply' = [request |-> "subscribe_course", sent |-> None]
            /\ UNCHANGED <<course_connections, sender>>

\* notification channel, {"type": "unsubscribe_course"}
unsubscribe_course(c, course) ==
    /\ UNCHANGED <<videoVars, progressVars, mediaVars>>
    /\ conn[c].state = "open" /\ conn[c].channel = "notifications"
    /\ course_connections' = remove_course_connection(course_connections, c, course)
    /\ reply' = [request |-> "unsubscribe_course",
                 sent |-> "unsubscription_confirmed"]
    /\ UNCHANGED <<conn, active_connections, connect_result>>
    /\ sender' = SendersAfter(active_connections', course_connections')

\* the peer goes away without a close handshake: writes to it raise from now on
ConnBreak(c) ==
    /\ UNCHANGED <<videoVars, progressVars, mediaVars>>
    /\ conn[c].state = "open" /\ ~conn[c].broken
    /\ conn' = [conn EXCEPT ![c].broken = TRUE]
    /\ UNCHANGED <<active_connections, course_connections, connect_result>>
    /\ reply' = NoReply
    /\ sender' = SendersAfter(active_connections', course_connections')

\* the handler leaves its receive loop (WebSocketDisconnect, or an error
\* while answering): the finally clause of the endpoint
handler_finally(c) ==
    /\ UNCHANGED <<videoVars, progressVars, mediaVars>>
    /\ conn[c].state = "open"
    /\ conn' = [conn EXCEPT ![c] = ClosedConn]
    /\ UNCHANGED connect_result
    /\ reply' = NoReply
    /\ active_connections' = disconnect(active_connections, c, conn[c].user)
    /\ course_connections' =
           IF conn[c].channel = "progress"
           THEN remove_course_connection(course_connections, c, conn[c].course)
           ELSE course_connections
    /\ sender' = SendersAfter(active_connections', course_connections')

\* ConnectionManager.connect called again for a websocket that is
\* registered: accept() raises before the append is reached
connect_again(c) ==
    /\ UNCHANGED <<videoVars, progressVars, mediaVars>>
    /\ conn[c].state = "open"
    /\ InBucket(active_connections, c)
    /\ connect_result' = accept(c)
    /\ active_connections' =
           IF accept(c) = "accepted"
           THEN connect(active_connections, c, conn[c].user)
           ELSE active_connections
    /\ UNCHANGED <<conn, course_connections>>
    /\ reply' = NoReply
    /\ sender' = IF accept(c) = "accepted"
                 THEN SendersAfter(active_connections', course_connections')
                 ELSE sender

WriteOK(c) == conn[c].state = "open" /\ ~conn[c].broken

BucketMap(kind) == IF kind = "course" THEN course_connections ELSE active_connections

\* next(iterator) on the list the send iterates: the live bucket, or the
\* dead empty list once the bucket was deleted
Advance(r, l) ==
    IF ~r.detached /\ r.idx < Len(l)
    THEN [r EXCEPT !.pc = "await", !.cur = l[r.idx + 1], !.idx = r.idx + 1]
    ELSE [r EXCEPT !.pc = "done", !.cur = 0]

\* send_personal_message / send_course_message up to the first await
SendStart(s, kind, key) ==
    /\ UNCHANGED <<videoVars, progressVars, mediaVars>>
    /\ sender[s].pc = "idle"
    /\ kind \in {"user", "course"}
    /\ key \in (IF kind = "user" THEN Users ELSE Courses)
    /\ LET m == BucketMap(kind)
           r == [IdleSender EXCEPT !.kind = kind, !.key = key]
       IN  sender' = [sender EXCEPT ![s] =
               IF key \in DOMAIN m
               THEN Advance(r, m[key])
               ELSE [r EXCEPT !.pc = "done"]]
    /\ UNCHANGED <<conn, active_connections, course_connections, connect_result>>
    /\ reply' = NoReply

\* the except clause: self.<map>[key].remove(connection); a missing key or a
\* connection no longer in the list raises out of the send
ExceptRemove(m, key, c) ==
    IF key \notin DOMAIN m THEN [raised |-> TRUE, map |-> m]
    ELSE IF ~InList(m[key], c) THEN [raised |-> TRUE, map |-> m]
    ELSE [raised |-> FALSE, map |-> [m EXCEPT ![key] = ListRemove(@, c)]]

OtherSendersAfterRemoval(s, ac2) ==
    [t \in Senders |->
        IF t # s /\ sender[t].pc # "idle"
        THEN [sender[t] EXCEPT !.interfered = TRUE,
                               !.stayed = {c \in @ : InBucket(ac2, c)}]
        ELSE sender[t]]

\* the awaited send_text completes (or raises) and the loop runs to its next
\* await or to its end
SendResume(s) ==
    /\ UNCHANGED <<videoVars, progressVars, mediaVars>>
    /\ sender[s].pc = "await"
    /\ sender[s].kind \in {"user", "course"}
    /\ LET r == sender[s]
           c == r.cur
           m == BucketMap(r.kind)
       IN  IF WriteOK(c)
           THEN /\ sender' = [sender EXCEPT ![s] =
                       Advance([r EXCEPT !.got = @ \cup {c}],
                               IF r.detached THEN <<>> ELSE m[r.key])]
                /\ UNCHANGED <<active_connections, course_connections>>
           ELSE LET e == ExceptRemove(m, r.key, c)
                IN  /\ sender' =
                          [OtherSendersAfterRemoval(s,
                               IF r.kind = "user" THEN e.map
                               ELSE active_connections) EXCEPT ![s] =
                              IF e.raised
                              THEN [r EXCEPT !.pc = "raised", !.cur = 0,
                                             !.failed = @ \cup {c}]
                              ELSE Advance([r EXCEPT !.removed_live =
                                                @ \/ WriteOK(c),
                                                !.failed = @ \cup {c}],
                                           IF r.detached THEN <<>>
                                           ELSE e.map[r.key])]
                    /\ active_connections' =
                          IF r.kind = "user" THEN e.map ELSE active_connections
                    /\ course_connections' =
                          IF r.kind = "course" THEN e.map ELSE course_connections
    /\ UNCHANGED <<conn, connect_result>>
    /\ reply' = NoReply

\* the orders in which the values() iterator can yield the user buckets
UserOrders ==
    {o \in [1..Cardinality(Users) -> Users] :
        \A i, j \in 1..Cardinality(Users) : o[i] = o[j] => i = j}

\* broadcast: next() on the iterator of self.active_connections.values(),
\* which raises RuntimeError once the dict has changed size, then next() on
\* the iterator of the bucket it yields, up to the next await or the end
RECURSIVE NextBucket(_, _, _)
NextBucket(r, ac, ord) ==
    IF Cardinality(DOMAIN ac) # r.used
    THEN [r EXCEPT !.pc = "raised", !.cur = 0]
    ELSE LET Unvisited(u) == u \in DOMAIN ac /\ u \notin r.visited
             rest == SelectSeq(ord, Unvisited)
         IN  IF rest = <<>>
             THEN [r EXCEPT !.pc = "done", !.cur = 0]
             ELSE LET k == Head(rest)
                      r1 == [r EXCEPT !.key = k, !.visited = @ \cup {k},
                                      !.idx = 0, !.detached = FALSE]
                  IN  IF ac[k] = <<>>
                      THEN NextBucket(r1, ac, ord)
                      ELSE Advance(r1, ac[k])

\* broadcast up to the first await
BroadcastStart(s, ord) ==
    /\ UNCHANGED <<videoVars, progressVars, mediaVars>>
    /\ sender[s].pc = "idle"
    /\ sender' = [sender EXCEPT ![s] =
           NextBucket([IdleSender EXCEPT
                          !.kind = "broadcast",
                          !.used = Cardinality(DOMAIN active_connections),
                          !.stayed = {c \in Conns :
                                         InBucket(active_connections, c)}],
                      active_connections, ord)]
    /\ UNCHANGED <<conn, active_connections, course_connections, connect_result>>
    /\ reply' = NoReply

\* broadcast: the awaited send_text completes, or raises into "except: pass",
\* and the loops run to the next await or to the end
BroadcastResume(s, ord) ==
    /\ UNCHANGED <<videoVars, progressVars, mediaVars>>
    /\ sender[s].pc = "await"
    /\ sender[s].kind = "broadcast"
    /\ LET r == sender[s]
           c == r.cur
           r1 == IF WriteOK(c) THEN [r EXCEPT !.got = @ \cup {c}]
                 ELSE [r EXCEPT !.failed = @ \cup {c}]
           l == IF r.detached THEN <<>> ELSE active_connections[r.key]
       IN  sender' = [sender EXCEPT ![s] =
               IF r.idx < Len(l) THEN Advance(r1, l)
               ELSE NextBucket(r1, active_connections, ord)]
    /\ UNCHANGED <<conn, active_connections, course_connections, connect_result>>
    /\ reply' = NoReply

\* the send has returned (or raised) to its caller
SendReturn(s) ==
    /\ UNCHANGED <<videoVars, progressVars, mediaVars>>
    /\ sender[s].pc \in {"done", "raised"}
    /\ sender' = [sender EXCEPT ![s] = IdleSender]
    /\ UNCHANGED <<conn, active_connections, course_connections, connect_result>>
    /\ reply' = NoReply

NextRegistry ==
    \/ \E c \in Conns, t \in Tokens : websocket_notifications_connect(c, t)
    \/ \E c \in Conns, t \in Tokens, k \in Courses :
          websocket_progress_connect(c, t, k)
    \/ \E c \in Conns, k \in Courses : subscribe_course(c, k)
    \/ \E c \in Conns, k \in Courses : unsubscribe_course(c, k)
    \/ \E c \in Conns : connect_again(c)
    \/ \E c \in Conns : ConnBreak(c)
    \/ \E c \in Conns : handler_finally(c)
    \/ \E s \in Senders, kind \in {"user", "course"}, key \in Users \cup Courses :
          SendStart(s, kind, key)
    \/ \E s \in Senders : SendResume(s)
    \/ \E s \in Senders, ord \in UserOrders : BroadcastStart(s, ord)
    \/ \E s \in Senders, ord \in UserOrders : BroadcastResume(s, ord)
    \/ \E s \in Senders : SendReturn(s)

(***************************************************************************)
(* Progress tracking: POST /progress, PUT and DELETE /progress/{id}, and   *)
(* the progress_update message of /ws/progress/{course_id}.                *)
(* Every statement of these handlers selects by (user_id, content_id) or   *)
(* by row id, so the rows of one user and one content item are modelled.   *)
(***************************************************************************)
\* the authenticated user: enrolled in course A, not in course B
current_user == "u2"

\* percentages a client may send; the last one is outside 0..100
Percentages == {50, 100, 150}

\* an Optional[int] that holds a value
Some(v) == [kind |-> "int", v |-> v]

Positions == {Null, Some(30)}

\* request bodies as pydantic parses them: the fields the client sent
\* (model_fields_set) and the value of every field, defaults included
ProgressCreate ==
    {q \in [fields_set : SUBSET {"progress_percentage", "last_position", "completed"},
            progress_percentage : Percentages,
            last_position : Positions,
            completed : BOOLEAN] :
        /\ "progress_percentage" \in q.fields_set
        /\ "last_position" \notin q.fields_set => q.last_position = Null
        /\ "completed" \notin q.fields_set => q.completed = FALSE}

\* every field optional; a percentage that was not sent is never read
ProgressUpdate ==
    {q \in [fields_set : SUBSET {"progress_percentage", "last_position", "completed"},
            progress_percentage : Percentages,
            last_position : Positions,
            completed : BOOLEAN] :
        /\ q.fields_set # {}
        /\ "progress_percentage" \notin q.fields_set => q.progress_percentage = 50
        /\ "last_position" \notin q.fields_set => q.last_position = Null
        /\ "completed" \notin q.fields_set => q.completed = FALSE}

\* Field(..., ge=0, le=100) on progress_percentage
Valid(q) ==
    "progress_percentage" \in q.fields_set =>
        (q.progress_percentage >= 0 /\ q.progress_percentage <= 100)

\* a progress_update message: message.get("progress_percentage") and
\* message.get("last_position"), which is None when the key is absent
ProgressMessages ==
    [progress_percentage : Percentages, last_position : Positions]

\* "Auto-complete if progress is 100%"
AutoComplete(o) ==
    IF o.progress_percentage >= 100 THEN [o EXCEPT !.completed = TRUE] ELSE o

\* create_progress and update_progress on an existing record:
\* model_dump(exclude_unset=True), setattr per field, then auto-complete
RestSetattr(obj, q) ==
    AutoComplete(
        [progress_percentage |->
             IF "progress_percentage" \in q.fields_set
             THEN q.progress_percentage ELSE obj.progress_percentage,
         last_position |->
             IF "last_position" \in q.fields_set
             THEN q.last_position ELSE obj.last_position,
         completed |->
             IF "completed" \in q.fields_set
             THEN q.completed ELSE obj.completed])

\* create_progress without a record: CourseProgress(**model_dump(), ...)
RestNew(q) ==
    AutoComplete([progress_percentage |-> q.progress_percentage,
                  last_position |-> q.last_position,
                  completed |-> q.completed])

\* progress_update on an existing record
WsSetattr(obj, m) ==
    [progress_percentage |-> m.progress_percentage,
     last_position |-> m.last_position,
     completed |-> IF m.progress_percentage >= 100 THEN TRUE ELSE obj.completed]

\* progress_update without a record
WsNew(m) ==
    [progress_percentage |-> m.progress_percentage,
     last_position |-> m.last_position,
     completed |-> m.progress_percentage >= 100]

\* the flush at commit: the UPDATE sets the columns whose attribute differs
\* from the value the object was loaded with
Flush(row, obj, attrs) ==
    [col \in DOMAIN row |->
        IF attrs[col] # obj[col] THEN attrs[col] ELSE row[col]]

\* scalar_one_or_none() of the SELECT by (user_id, content_id)
Load(tbl) == IF tbl = <<>> THEN Null ELSE tbl[1]

\* a table without the unique constraint
unique_user_content_progress_absent(tbl) == TRUE

\* UniqueConstraint("user_id", "content_id"): an INSERT for the pair is
\* accepted when the table holds no row of the pair
unique_user_content_progress(tbl) == tbl = <<>>


\* what the updates applied so far carried
Applied(h, percentages) ==
    [ever100 |-> h.ever100 \/ (\E p \in percentages : p >= 100)]

Carried(q) ==
    IF "progress_percentage" \in q.fields_set THEN {q.progress_percentage} ELSE {}

\* db.commit() with the attributes the handler left on its object: the INSERT
\* of a new object, refused by the unique constraint when the pair has a row
\* (IntegrityError), or the UPDATE of the loaded row, which fails when that
\* row was deleted meanwhile
Commit(tbl, r, attrs) ==
    IF r.obj = Null
    THEN IF unique_user_content_progress(tbl)
         THEN [status |-> "persisted", tbl |-> Append(tbl, attrs)]
         ELSE [status |-> "integrity_error", tbl |-> tbl]
    ELSE IF r.stale \/ tbl = <<>>
         THEN [status |-> "stale_error", tbl |-> tbl]
         ELSE [status |-> "persisted",
               tbl |-> [tbl EXCEPT ![1] = Flush(@, r.obj, attrs)]]

Finished(r, status, event) ==
    [IdleReq EXCEPT !.pc = "done", !.path = req[r].path,
                    !.status = status, !.event = event]

\* a body that fails validation is answered 422 before the handler runs
rest_rejected(r, path, q) ==
    /\ UNCHANGED <<videoVars, registryVars, mediaVars>>
    /\ req[r].pc = "idle"
    /\ ~Valid(q)
    /\ req' = [req EXCEPT ![r] = [IdleReq EXCEPT !.pc = "done", !.path = path,
                                                 !.status = "rejected"]]
    /\ UNCHANGED <<progress, hist, paths>>

\* create_progress up to its SELECT: the enrollment check against the
\* course_id of the body, then the lookup of the existing record
create_progress_select(r, course) ==
    /\ UNCHANGED <<videoVars, registryVars, mediaVars>>
    /\ req[r].pc = "idle"
    /\ req' = [req EXCEPT ![r] =
           IF <<current_user, course>> \in Enrolled
           THEN [IdleReq EXCEPT !.pc = "loaded", !.path = "post",
                                !.obj = Load(progress)]
           ELSE [IdleReq EXCEPT !.pc = "done", !.path = "post",
                                !.status = "forbidden"]]
    /\ UNCHANGED <<progress, hist, paths>>

\* create_progress from the SELECT's result to its response; the body is
\* first read here
create_progress_commit(r, q) ==
    /\ UNCHANGED <<videoVars, registryVars, mediaVars>>
    /\ req[r].pc = "loaded" /\ req[r].path = "post"
    /\ Valid(q)
    /\ LET o == req[r].obj
           c == Commit(progress, req[r],
                       IF o = Null THEN RestNew(q) ELSE RestSetattr(o, q))
       IN  /\ progress' = c.tbl
           /\ hist' = IF c.status = "persisted"
                      THEN Applied(hist, Carried(q))
                      ELSE hist
           /\ req' = [req EXCEPT ![r] = Finished(r, c.status, Null)]
    /\ UNCHANGED paths

\* update_progress up to its SELECT by progress_id
update_progress_select(r) ==
    /\ UNCHANGED <<videoVars, registryVars, mediaVars>>
    /\ req[r].pc = "idle"
    /\ req' = [req EXCEPT ![r] =
           IF progress # <<>>
           THEN [IdleReq EXCEPT !.pc = "loaded", !.path = "put",
                                !.obj = Load(progress)]
           ELSE [IdleReq EXCEPT !.pc = "done", !.path = "put",
                                !.status = "not_found"]]
    /\ UNCHANGED <<progress, hist, paths>>

\* update_progress from the SELECT's result to its response
update_progress_commit(r, q) ==
    /\ UNCHANGED <<videoVars, registryVars, mediaVars>>
    /\ req[r].pc = "loaded" /\ req[r].path = "put"
    /\ Valid(q)
    /\ LET c == Commit(progress, req[r], RestSetattr(req[r].obj, q))
       IN  /\ progress' = c.tbl
           /\ hist' = IF c.status = "persisted"
                      THEN Applied(hist, Carried(q))
                      ELSE hist
           /\ req' = [req EXCEPT ![r] = Finished(r, c.status, Null)]
    /\ UNCHANGED paths

\* delete_progress up to its SELECT by progress_id
delete_progress_select(r) ==
    /\ UNCHANGED <<videoVars, registryVars, mediaVars>>
    /\ req[r].pc = "idle"
    /\ req' = [req EXCEPT ![r] =
           IF progress # <<>>
           THEN [IdleReq EXCEPT !.pc = "loaded", !.path = "delete",
                                !.obj = Load(progress)]
           ELSE [IdleReq EXCEPT !.pc = "done", !.path = "delete",
                                !.status = "not_found"]]
    /\ UNCHANGED <<progress, hist, paths>>

\* delete_progress: db.delete(progress) and commit; the objects other
\* requests loaded from the row now refer to a row that is gone
delete_progress_commit(r) ==
    /\ UNCHANGED <<videoVars, registryVars, mediaVars>>
    /\ req[r].pc = "loaded" /\ req[r].path = "delete"
    /\ LET ok == ~req[r].stale /\ progress # <<>>
       IN  /\ progress' = IF ok THEN Tail(progress) ELSE progress
           /\ UNCHANGED hist
           /\ req' = [t \in Reqs |->
                  IF t = r THEN Finished(r, IF ok THEN "deleted" ELSE "stale_error", Null)
                  ELSE IF ok /\ req[t].pc = "loaded" /\ req[t].obj # Null
                       THEN [req[t] EXCEPT !.stale = TRUE]
                       ELSE req[t]]
    /\ UNCHANGED paths

\* progress_update up to its SELECT; the handler reads content_id,
\* progress_percentage and last_position off the message and checks nothing
\* but their presence
ws_progress_update_select(r) ==
    /\ UNCHANGED <<videoVars, registryVars, mediaVars>>
    /\ req[r].pc = "idle"
    /\ req' = [req EXCEPT ![r] =
           [IdleReq EXCEPT !.pc = "loaded", !.path = "ws", !.obj = Load(progress)]]
    /\ UNCHANGED <<progress, hist, paths>>

\* progress_update from the SELECT's result to "await db.commit()"; a commit
\* that raises is answered with an error message
ws_progress_update_commit(r, m) ==
    /\ UNCHANGED <<videoVars, registryVars, mediaVars>>
    /\ req[r].pc = "loaded" /\ req[r].path = "ws"
    /\ LET o == req[r].obj
           c == Commit(progress, req[r],
                       IF o = Null THEN WsNew(m) ELSE WsSetattr(o, m))
       IN  /\ progress' = c.tbl
           /\ hist' = IF c.status = "persisted"
                      THEN Applied(hist, {m.progress_percentage})
                      ELSE hist
           /\ req' = [req EXCEPT ![r] =
                  IF c.status = "persisted"
                  THEN [IdleReq EXCEPT
                           !.pc = "broadcast", !.path = "ws",
                           !.status = "persisted",
                           !.event =
                               [type |-> "progress_updated",
                                progress_percentage |-> m.progress_percentage,
                                completed |-> m.progress_percentage >= 100]]
                  ELSE Finished(r, c.status, Null)]
    /\ UNCHANGED paths

\* progress_update: manager.send_course_message(progress_update, course_id)
ws_progress_update_broadcast(r) ==
    /\ UNCHANGED <<videoVars, registryVars, mediaVars>>
    /\ req[r].pc = "broadcast"
    /\ req' = [req EXCEPT ![r].pc = "done"]
    /\ UNCHANGED <<progress, hist, paths>>

\* the response is sent, or the websocket handler is back at receive_text
respond(r) ==
    /\ UNCHANGED <<videoVars, registryVars, mediaVars>>
    /\ req[r].pc = "done"
    /\ req' = [req EXCEPT ![r] = IdleReq]
    /\ UNCHANGED <<progress, hist, paths>>

NextProgress ==
    \/ \E r \in Reqs, q \in ProgressCreate : rest_rejected(r, "post", q)
    \/ \E r \in Reqs, q \in ProgressUpdate : rest_rejected(r, "put", q)
    \/ \E r \in Reqs, course \in Courses : create_progress_select(r, course)
    \/ \E r \in Reqs, q \in ProgressCreate : create_progress_commit(r, q)
    \/ \E r \in Reqs : update_progress_select(r)
    \/ \E r \in Reqs, q \in ProgressUpdate : update_progress_commit(r, q)
    \/ \E r \in Reqs : delete_progress_select(r)
    \/ \E r \in Reqs : delete_progress_commit(r)
    \/ \E r \in Reqs : ws_progress_update_select(r)
    \/ \E r \in Reqs, m \in ProgressMessages : ws_progress_update_commit(r, m)
    \/ \E r \in Reqs : ws_progress_update_broadcast(r)
    \/ \E r \in Reqs : respond(r)

(***************************************************************************)
(* One sequence of updates (content_id, percentage, last_position) of the  *)
(* enrolled user, handled one at a time, given to POST /progress and, as   *)
(* progress_update messages, to the websocket, each over its own table.    *)
(***************************************************************************)
Updates ==
    [progress_percentage : Percentages,
     last_position : Positions \cup {Some(60)}]

\* the update as a POST body: last_position is sent when the client has one
AsBody(u) ==
    [fields_set |-> {"progress_percentage"} \cup
                    (IF u.last_position # Null THEN {"last_position"} ELSE {}),
     progress_percentage |-> u.progress_percentage,
     last_position |-> u.last_position,
     completed |-> FALSE]

\* the update as a progress_update message
AsMessage(u) ==
    [progress_percentage |-> u.progress_percentage,
     last_position |-> u.last_position]

\* create_progress as a whole, no other request in between
RestPath(tbl, q) ==
    IF ~Valid(q) THEN [status |-> "rejected", tbl |-> tbl]
    ELSE LET o == Load(tbl)
             c == Commit(tbl, [IdleReq EXCEPT !.obj = o],
                         IF o = Null THEN RestNew(q) ELSE RestSetattr(o, q))
         IN  c

\* the progress_update branch as a whole, no other message in between
WsPath(tbl, m) ==
    LET o == Load(tbl)
        c == Commit(tbl, [IdleReq EXCEPT !.obj = o],
                    IF o = Null THEN WsNew(m) ELSE WsSetattr(o, m))
    IN  c

\* the next update of the sequence goes through both ingresses
apply_update(u) ==
    /\ UNCHANGED <<videoVars, registryVars, mediaVars>>
    /\ paths.n < MaxUpdates
    /\ LET a == RestPath(paths.rest, AsBody(u))
           b == WsPath(paths.ws, AsMessage(u))
       IN  paths' = [rest |-> a.tbl, ws |-> b.tbl,
                     rest_status |-> a.status, ws_status |-> b.status,
                     n |-> paths.n + 1]
    /\ UNCHANGED <<progress, req, hist>>

NextPaths == \E u \in Updates : apply_update(u)

SpecVideo ==
    /\ Init
    /\ [][NextVideo]_vars

\* the tasks of the video_processing queue, redelivery included
NextTasks ==
    \/ NextVideo
    \/ \E j, k \in Jobs : redeliver(j, k)
    \/ NextPreview

SpecTasks ==
    /\ Init
    /\ [][NextTasks]_vars

(***************************************************************************)
(* Streaming: GET /stream/video/{content_id}                               *)
(***************************************************************************)
\* a header value is a sequence of characters; the unit prefix "bytes=" is
\* kept as one symbol, "x" stands for any character that is no digit
DigitChar == <<"0", "1", "2", "3", "4", "5", "6", "7", "8", "9">>

Digits == {DigitChar[i] : i \in 1..10}

DigitValue(d) == (CHOOSE i \in 1..10 : DigitChar[i] = d) - 1

\* str(n) of an f-string, for 0 <= n < 100
Str(n) ==
    IF n < 10 THEN <<DigitChar[n + 1]>>
    ELSE <<DigitChar[(n \div 10) + 1], DigitChar[(n % 10) + 1]>>

\* "bytes={s}-{e}"
RangeHeader(s, e) == <<"bytes=">> \o Str(s) \o <<"-">> \o Str(e)

\* the pieces a client can put on either side of the dash
RangeParts == {<<>>, <<"0">>, <<"2">>, <<"3">>, <<"1", "1">>, <<"1", "2">>, <<"x">>}

\* the Range header values a client can send
RangeHeaders ==
    {<<"bytes=">> \o a \o <<"-">> \o b : a, b \in RangeParts}
        \cup {<<"bytes=", "2">>, <<"2", "-", "3">>}

\* sizes of the stored object
ObjectSizes == {4, MaxByte}

\* range_header.replace("bytes=", "")
Replace(h) == LET Keep(t) == t # "bytes=" IN SelectSeq(h, Keep)

\* str.split("-")
RECURSIVE Split(_)
Split(h) ==
    IF \A i \in 1..Len(h) : h[i] # "-" THEN <<h>>
    ELSE LET i == CHOOSE k \in 1..Len(h) :
                      h[k] = "-" /\ \A m \in 1..(k - 1) : h[m] # "-"
         IN  <<SubSeq(h, 1, i - 1)>> \o Split(SubSeq(h, i + 1, Len(h)))

\* int(x) raises ValueError unless x is a numeral
IsNumeral(x) == x # <<>> /\ \A i \in 1..Len(x) : x[i] \in Digits

RECURSIVE ParseInt(_)
ParseInt(x) ==
    IF x = <<>> THEN 0
    ELSE 10 * ParseInt(SubSeq(x, 1, Len(x) - 1)) + DigitValue(x[Len(x)])

\* the object store's answer to GET with "Range: bytes={s}-{e}" on an
\* object of size bytes: a range whose end precedes its start is ignored
\* and the whole object is sent, a start past the end of the object is
\* answered 416, otherwise the range is served, cut at the last byte
upstream_get(size, s, e) ==
    IF e < s THEN [status |-> 200, body |-> <<0, size - 1>>]
    ELSE IF s >= size THEN [status |-> 416, body |-> <<>>]
    ELSE [status |-> 206, body |-> <<s, IF e < size THEN e ELSE size - 1>>]

\* a response without the range headers
PlainResponse(status, detail) ==
    [status |-> status, detail |-> detail, content_range |-> <<>>,
     accept_ranges |-> None, content_length |-> 0, fetch |-> <<>>,
     body |-> <<>>]

\* stream_with_range: parse, HEAD for the size (the probed metadata has no
\* file_size), ranged GET, 206.  IndexError and ValueError are no
\* httpx.HTTPError, so they leave the handler and become a 500
stream_with_range(range_header, size) ==
    LET range_match == Split(Replace(range_header)) IN
    IF range_match[1] # <<>> /\ ~IsNumeral(range_match[1])
    THEN PlainResponse(500, "ValueError")
    ELSE IF Len(range_match) < 2 THEN PlainResponse(500, "IndexError")
    ELSE IF range_match[2] # <<>> /\ ~IsNumeral(range_match[2])
    THEN PlainResponse(500, "ValueError")
    ELSE LET start == IF range_match[1] # <<>> THEN ParseInt(range_match[1]) ELSE 0
             end == IF range_match[2] # <<>> THEN ParseInt(range_match[2])
                    ELSE size - 1
             up == upstream_get(size, start, end)
         IN  IF up.status >= 400
             THEN PlainResponse(502, "Failed to stream video")
             ELSE [status |-> 206, detail |-> None,
                   content_range |-> <<start, end, size>>,
                   accept_ranges |-> "bytes",
                   content_length |-> end - start + 1,
                   fetch |-> <<start, end>>,
                   body |-> up.body]

\* stream_full_video: GET without Range, StreamingResponse with status 200
stream_full_video(size) ==
    [PlainResponse(200, None) EXCEPT !.body = <<0, size - 1>>]

\* the course of a content row
CourseOf(c) == IF c = "c1" THEN "A" ELSE "B"

\* tables of Base.metadata.  CourseContent has no attribute of its own named
\* "metadata" (the JSONB column is content_metadata), so content.metadata is
\* the declarative base's MetaData object, and "x in content.metadata" asks
\* whether a table named x is registered
BaseMetadataTables ==
    {"users", "courses", "course_contents", "enrollments", "course_progress",
     "invitations", "notes"}

\* stream_video: row lookup, enrollment test, the "processed_urls" test on
\* content.metadata, then stream_with_range or stream_full_video
stream_video(c, u, range_header, size) ==
    /\ stream' =
           [via |-> "stream_video", content |-> c, user |-> u,
            processed |-> content_metadata[c] # Null,
            header |-> range_header, size |-> size,
            response |->
                IF ~enrollment(u, CourseOf(c))
                THEN PlainResponse(403, "You must be enrolled")
                ELSE IF "processed_urls" \notin BaseMetadataTables
                THEN PlainResponse(404, "Video not processed yet")
                ELSE PlainResponse(500, "TypeError")]
    /\ UNCHANGED <<preview, search_queue, objects, response>>
    /\ UNCHANGED <<videoVars, registryVars, progressVars>>

\* stream_with_range called with the URL of a stored object
call_stream_with_range(range_header, size) ==
    /\ stream' =
           [via |-> "stream_with_range", content |-> None, user |-> None,
            processed |-> TRUE, header |-> range_header, size |-> size,
            response |-> stream_with_range(range_header, size)]
    /\ UNCHANGED <<preview, search_queue, objects, response>>
    /\ UNCHANGED <<videoVars, registryVars, progressVars>>

\* stream_full_video called with the URL of a stored object
call_stream_full_video(size) ==
    /\ stream' =
           [via |-> "stream_full_video", content |-> None, user |-> None,
            processed |-> TRUE, header |-> <<>>, size |-> size,
            response |-> stream_full_video(size)]
    /\ UNCHANGED <<preview, search_queue, objects, response>>
    /\ UNCHANGED <<videoVars, registryVars, progressVars>>

\* one task that processes content row c2 without failing, and stream
\* requests before, while and after it runs
NextStream ==
    \/ delay_with_content(1, "c2")
    \/ WorkerStart(1)
    \/ download_video(1)
    \/ probe(1)
    \/ transcode_and_upload(1)
    \/ thumbnail(1)
    \/ publish(1)
    \/ \E u \in Users, h \in RangeHeaders \cup {<<>>}, size \in ObjectSizes :
          stream_video("c2", u, h, size)
    \/ \E h \in RangeHeaders, size \in ObjectSizes : call_stream_with_range(h, size)
    \/ \E size \in ObjectSizes : call_stream_full_video(size)

SpecStream ==
    /\ Init
    /\ [][NextStream]_vars

\* the upload ingress with every kind of upload
NextUpload ==
    \E j \in Jobs, f \in UploadFiles, stored \in BOOLEAN : upload_content(j, f, stored)

SpecUpload ==
    /\ Init
    /\ [][NextUpload]_vars

SpecRegistry ==
    /\ Init
    /\ [][NextRegistry]_vars

SpecProgress ==
    /\ Init
    /\ [][NextProgress]_vars

SpecPaths ==
    /\ Init
    /\ [][NextPaths]_vars


(***************************************************************************)
(* Properties of the video pipeline (SpecVideo)                            *)
(***************************************************************************)
\* C1: a task whose every attempt fails is executed exactly
\* max_retries + 1 = 4 times and, once it has failed for good, never again:
\* no task is ever executed more than 4 times, and a task in the FAILURE
\* state has been executed exactly 4 times.
C1_RetryCap ==
    \A j \in Jobs :
        /\ jobs[j].executions <= max_retries + 1
        /\ jobs[j].state = "failure" => jobs[j].executions = max_retries + 1

C1_Witness ==
    \E j \in Jobs : jobs[j].state = "failure" /\ jobs[j].executions = 4

BlobUrls(b) ==
    {b.processed_urls[q] : q \in DOMAIN b.processed_urls} \cup {b.thumbnail_url}

\* C2: after two (or more) publishes for one content id, the row's metadata
\* is exactly the last call's payload with processing_status = completed,
\* and holds no URL of an earlier call.
C2_LastWriteWins ==
    \A c \in Contents :
        Len(publishLog[c]) >= 2 =>
            LET last == publishLog[c][Len(publishLog[c])] IN
            /\ content_metadata[c] =
                   [processed_urls |-> last.processed_urls,
                    thumbnail_url |-> last.thumbnail_url,
                    video_metadata |-> last.video_metadata,
                    processing_status |-> "completed"]
            /\ \A i \in 1..(Len(publishLog[c]) - 1) :
                   BlobUrls(publishLog[c][i]) \cap BlobUrls(content_metadata[c]) = {}

C2_Witness ==
    \E c \in Contents :
        /\ Len(publishLog[c]) = 2
        /\ BlobUrls(publishLog[c][1]) \cap BlobUrls(publishLog[c][2]) = {}
        /\ publishLog[c][1].video_metadata # publishLog[c][2].video_metadata

\* C3: whenever a task queued by the upload ingress has returned success,
\* a content row holds processing_status = completed and processed_urls
\* with exactly the four rungs.
C3_UploadSuccessCompletesRecord ==
    \A j \in Jobs :
        (jobs[j].origin = "upload" /\ jobs[j].state = "success") =>
            \E c \in Contents :
                /\ content_metadata[c] # Null
                /\ content_metadata[c].processing_status = "completed"
                /\ DOMAIN content_metadata[c].processed_urls = Rungs

PipelineOrder ==
    <<"download", "probe",
      "transcode_1080p", "upload_1080p", "transcode_720p", "upload_720p",
      "transcode_480p", "upload_480p", "transcode_360p", "upload_360p",
      "thumbnail", "upload_thumbnail", "publish">>

\* C4: within an attempt the steps run in the pipeline's order and the
\* publish comes last, after all four rungs and the thumbnail; an attempt
\* that failed wrote nothing (every written blob is the complete payload of
\* an attempt that returned success) and was handed to the retry policy
\* (re-queued with retries + 1, or ended in FAILURE at the cap).
C4_PublishAfterAllSteps ==
    /\ \A j \in Jobs :
          /\ Len(jobs[j].steps) <= Len(PipelineOrder)
          /\ jobs[j].steps = SubSeq(PipelineOrder, 1, Len(jobs[j].steps))
          /\ (jobs[j].state = "running" /\ jobs[j].pc = "publish")
                => Len(jobs[j].steps) = Len(PipelineOrder) - 1
          /\ jobs[j].state = "success" => jobs[j].steps = PipelineOrder
          /\ jobs[j].state = "queued" => jobs[j].executions = jobs[j].retries
          /\ jobs[j].state = "running" => jobs[j].executions = jobs[j].retries + 1
          /\ jobs[j].state = "failure" => jobs[j].retries = max_retries
    /\ \A c \in Contents :
          content_metadata[c] # Null =>
              /\ DOMAIN content_metadata[c].processed_urls = Rungs
              /\ \E j \in Jobs :
                    /\ jobs[j].state = "success"
                    /\ jobs[j].content_id = c
                    /\ content_metadata[c].processed_urls = jobs[j].output_urls
                    /\ content_metadata[c].thumbnail_url = jobs[j].thumbnail_url

C4_Witness ==
    \E j \in Jobs, c \in Contents :
        /\ jobs[j].state = "success" /\ jobs[j].retries > 0
        /\ jobs[j].content_id = c
        /\ content_metadata[c] # Null

\* C5: a task queued by the upload ingress that has reached success has
\* updated at least one content row.
C5_UploadSuccessUpdatesARow ==
    \A j \in Jobs :
        (jobs[j].origin = "upload" /\ jobs[j].state = "success") =>
            Cardinality(RowsMatched(jobs[j].content_id)) >= 1

\* what a polling client reads for the record a task refers to
ClientView(j) == content_metadata[jobs[j].content_id]

\* C6: the record of a task that exhausted its retries reads differently
\* from the record of a task that is still queued or running.
C6_FailedDistinguishable ==
    \A j1, j2 \in Jobs :
        ( /\ jobs[j1].content_id \in Contents
          /\ jobs[j2].content_id \in Contents
          /\ jobs[j1].content_id # jobs[j2].content_id
          /\ jobs[j1].state = "failure"
          /\ jobs[j2].state \in {"queued", "running"} )
        => ClientView(j1) # ClientView(j2)

(***************************************************************************)
(* Properties of the connection registry (SpecRegistry)                    *)
(***************************************************************************)
\* C7: when ConnectionManager.disconnect(connection, user_id) has returned
\* (the notification handler's finally clause is exactly that call), the
\* connection is in no user bucket and in no course bucket, and no bucket
\* it was in is kept empty.
C7_DisconnectReleasesAll ==
    [][ \A c \in Conns :
          ( /\ conn[c].state = "open"
            /\ conn[c].channel = "notifications"
            /\ conn'[c].state = "closed" )
          => /\ ~InBucket(active_connections', c)
             /\ ~InBucket(course_connections', c)
             /\ \A u \in DOMAIN active_connections' :
                    active_connections'[u] # <<>>
                        \/ ~InList(active_connections[u], c)
             /\ \A k \in DOMAIN course_connections' :
                    course_connections'[k] # <<>>
                        \/ ~InList(course_connections[k], c)
      ]_vars

\* C8: a connection whose handler has ended, on either channel, is in no
\* user bucket and in no course bucket.
C8_ClosedConnectionReleased ==
    \A c \in Conns :
        conn[c].state = "closed" =>
            /\ ~InBucket(active_connections, c)
            /\ ~InBucket(course_connections, c)

\* C9: when a send has returned and no handler ran during it, every
\* connection of its bucket that accepts writes has been written to.
C9_SendReachesEveryLiveConnection ==
    \A s \in Senders :
        ( /\ sender[s].kind \in {"user", "course"}
          /\ sender[s].pc = "done"
          /\ ~sender[s].interfered
          /\ sender[s].key \in DOMAIN BucketMap(sender[s].kind) )
        => \A c \in ListSet(BucketMap(sender[s].kind)[sender[s].key]) :
               WriteOK(c) => c \in sender[s].got

\* C10: a send never raises to its caller and never removes a connection
\* whose write had not failed, whatever the handlers do while it is
\* suspended.
C10_SendNeverRaises ==
    \A s \in Senders :
        sender[s].kind \in {"user", "course"} =>
            /\ sender[s].pc # "raised"
            /\ ~sender[s].removed_live

\* the connections a call has written to or is about to write to
Addressed(s) ==
    sender[s].got \cup (IF sender[s].pc = "await" THEN {sender[s].cur} ELSE {})

\* C11: a send_course_message for a course writes only to connections of
\* that course's bucket: never to an open progress connection of another
\* course, whoever its user is, and, when no handler ran during the call,
\* only to connections that are in the bucket of the course it was given.
C11_CourseIsolation ==
    \A s \in Senders :
        sender[s].kind = "course" =>
            \A c \in Addressed(s) :
                /\ (conn[c].state = "open" /\ conn[c].channel = "progress")
                       => conn[c].course = sender[s].key
                /\ ~sender[s].interfered
                       => /\ sender[s].key \in DOMAIN course_connections
                          /\ InList(course_connections[sender[s].key], c)

\* one user with a connection on course A and a connection on course B, and
\* a message for A that went to the first and not to the second
C11_Witness ==
    \E s \in Senders, c1, c2 \in Conns :
        /\ sender[s].kind = "course" /\ sender[s].key = "A"
        /\ sender[s].pc = "done"
        /\ c1 # c2
        /\ WriteOK(c1) /\ WriteOK(c2)
        /\ conn[c1].user = conn[c2].user
        /\ conn[c1].course = "A" /\ conn[c2].course = "B"
        /\ c1 \in sender[s].got
        /\ c2 \notin sender[s].got

\* C12: when a delivery call (send_personal_message, send_course_message or
\* broadcast) that no handler interrupted has returned, every connection
\* whose write failed during it is in no user bucket and in no course bucket.
C12_FailedWriteUnregisters ==
    \A s \in Senders :
        (sender[s].pc = "done" /\ ~sender[s].interfered) =>
            \A c \in sender[s].failed :
                /\ ~InBucket(active_connections, c)
                /\ ~InBucket(course_connections, c)

\* C13: a broadcast never raises to its caller, and when it has returned it
\* has written to every connection that stayed registered in a user bucket
\* during the call and accepts writes, whatever handlers ran while it was
\* suspended.
C13_BroadcastReachesAll ==
    \A s \in Senders :
        sender[s].kind = "broadcast" =>
            /\ sender[s].pc # "raised"
            /\ sender[s].pc = "done" =>
                   \A c \in sender[s].stayed :
                       WriteOK(c) => c \in sender[s].got

\* C14: ConnectionManager.connect on a connection that is already
\* registered returns as a no-op: it does not raise, and the connection is
\* in its user's bucket once.
C14_RegisterTwiceNoOp ==
    /\ connect_result # "raised"
    /\ \A u \in DOMAIN active_connections :
           \A i, j \in 1..Len(active_connections[u]) :
               active_connections[u][i] = active_connections[u][j] => i = j

(***************************************************************************)
(* Properties of progress tracking (SpecProgress, SpecPaths)               *)
(***************************************************************************)
\* the record is completed, and request r read it as it is now
CompletedBefore(r) ==
    /\ progress # <<>>
    /\ progress[1].completed
    /\ ~req[r].stale
    /\ req[r].obj = progress[1]

\* request r commits, in this step, an update that carries percentage p
UpdateCommits(r, p) ==
    \/ \E q \in ProgressCreate :
          q.progress_percentage = p /\ create_progress_commit(r, q)
    \/ \E q \in ProgressUpdate :
          /\ "progress_percentage" \in q.fields_set
          /\ q.progress_percentage = p
          /\ update_progress_commit(r, q)
    \/ \E m \in ProgressMessages :
          m.progress_percentage = p /\ ws_progress_update_commit(r, m)

\* C15: an update with a percentage below 100 that is applied to a record
\* whose completed flag is true leaves the flag true and stores the new
\* percentage, whichever handler applies it.
C15_CompletedIsSticky ==
    [][ \A r \in Reqs, p \in Percentages :
          (p < 100 /\ CompletedBefore(r) /\ UpdateCommits(r, p))
          => /\ progress' # <<>>
             /\ progress'[1].completed
             /\ progress'[1].progress_percentage = p
      ]_vars

\* C16: the record's completed flag is true exactly when some update applied
\* to the pair so far carried a percentage of at least 100.
C16_CompletedIffReached100 ==
    \A i \in 1..Len(progress) : progress[i].completed <=> hist.ever100

\* C17: a handler that has persisted a progress update has sent a
\* progress_updated event to the course's subscribers by the time it is
\* finished.
C17_PersistedUpdateIsBroadcast ==
    \A r \in Reqs :
        ( /\ req[r].pc = "done"
          /\ req[r].path \in {"post", "put", "ws"}
          /\ req[r].status = "persisted" )
        => req[r].event # Null

\* C18: after the same sequence of updates, the table written through
\* POST /progress and the table written through progress_update messages
\* hold the same record, and neither ingress has persisted an update that
\* the other rejected.
C18_PathsAgree ==
    /\ paths.rest = paths.ws
    /\ (paths.rest_status = "persisted") <=> (paths.ws_status = "persisted")

\* C19: every persisted record has a percentage between 0 and 100.
C19_PercentageInRange ==
    \A i \in 1..Len(progress) :
        /\ progress[i].progress_percentage >= 0
        /\ progress[i].progress_percentage <= 100

\* C20: the table never holds more than one record of the pair.
C20_OneRecordPerPair == Len(progress) <= 1

\* two handlers read "no record", one inserted, and the other's INSERT was
\* refused
C20_Witness ==
    /\ Len(progress) = 1
    /\ \E r \in Reqs :
           /\ req[r].pc = "done"
           /\ req[r].path \in {"post", "ws"}
           /\ req[r].status = "integrity_error"

\* C29: a connection appears at most once in any user bucket and at most
\* once in any course bucket.
C29_BucketsAreSets ==
    /\ \A u \in DOMAIN active_connections :
           Cardinality(ListSet(active_connections[u])) = Len(active_connections[u])
    /\ \A k \in DOMAIN course_connections :
           Cardinality(ListSet(course_connections[k])) = Len(course_connections[k])

\* C30: when a progress_update handler persists its record and builds the
\* progress_updated event, the event's completed flag is the completed value
\* of the record it has just persisted.
C30_EventCompletedMatchesRecord ==
    [][ \A r \in Reqs, m \in ProgressMessages :
          (ws_progress_update_commit(r, m) /\ req'[r].pc = "broadcast")
          => /\ progress' # <<>>
             /\ req'[r].event.completed = progress'[1].completed
      ]_vars

\* C21: a subscribe_course message on the notification channel for a course
\* in which the connection's user has no enrollment is answered with no
\* message, leaves the connection open and leaves both registry maps as
\* they were.
C21_RefusedSubscribeChangesNothing ==
    [][ \A c \in Conns, k \in Courses :
          ( /\ reply'.request = "subscribe_course"
            /\ conn[c].state = "open"
            /\ <<conn[c].user, k>> \notin Enrolled
            /\ subscribe_course(c, k) )
          => /\ reply'.sent = None
             /\ conn'[c].state = "open"
             /\ active_connections' = active_connections
             /\ course_connections' = course_connections
      ]_vars

\* a subscribe_course message has just been handled without an answer
C21_Witness ==
    /\ reply = [request |-> "subscribe_course", sent |-> None]
    /\ \E c \in Conns, k \in Courses :
           /\ conn[c].state = "open" /\ conn[c].channel = "notifications"
           /\ <<conn[c].user, k>> \notin Enrolled

\* the handshake of websocket c, with token t (and course k on the progress
\* channel), is handled in this step
Handshake(c, t, k) ==
    \/ websocket_notifications_connect(c, t)
    \/ websocket_progress_connect(c, t, k)

\* C22: a handshake on either channel without a token, or with a token that
\* names no user, is closed with code 4001; a handshake on the progress
\* channel by a user without an enrollment in the course is closed with code
\* 4003; neither changes a registry map, and a websocket closed with either
\* code is in no bucket.
C22_RefusedHandshake ==
    /\ [](\A c \in Conns :
            conn[c].close_code # 0
            => /\ conn[c].state = "closed"
               /\ ~InBucket(active_connections, c)
               /\ ~InBucket(course_connections, c))
    /\ [][ \A c \in Conns, t \in Tokens, k \in Courses :
             (conn[c].state = "new" /\ conn'[c].state # "new") =>
             /\ (t \notin Users /\ Handshake(c, t, k))
                => /\ conn'[c].close_code = 4001
                   /\ active_connections' = active_connections
                   /\ course_connections' = course_connections
             /\ ( /\ t \in Users
                  /\ <<t, k>> \notin Enrolled
                  /\ websocket_progress_connect(c, t, k) )
                => /\ conn'[c].close_code = 4003
                   /\ active_connections' = active_connections
                   /\ course_connections' = course_connections
         ]_vars

\* one handshake was closed with 4001 and another with 4003
C22_Witness ==
    \E c, d \in Conns :
        /\ conn[c].state = "closed" /\ conn[c].close_code = 4001
        /\ conn[d].state = "closed" /\ conn[d].close_code = 4003

\* C23: an attempt of process_video_task or of generate_video_preview that
\* has ended, by return or by an exception in any step, has left no file in
\* its working area.
C23_NoScratchLeft ==
    /\ \A j \in Jobs : jobs[j].state # "running" => jobs[j].scratch = {}
    /\ preview.state # "running" => preview.scratch = {}

\* one transcoding task has returned, another was stopped by an exception and
\* waits for its retry, and the preview task has failed for good
C23_Witness ==
    /\ \E j, k \in Jobs :
           /\ jobs[j].state = "success"
           /\ jobs[k].state = "queued" /\ jobs[k].retries > 0
    /\ preview.state = "failure"

\* content rows whose metadata the pipeline has published
Published == {c \in Contents : content_metadata[c] # Null}

\* C24: once a task has published the metadata of a content row and
\* returned, an index_content_task message for that row is on the queue.
C24_PublishEnqueuesIndexing ==
    \A j \in Jobs :
        (jobs[j].state = "success" /\ jobs[j].content_id \in Published)
        => \E i \in 1..Len(search_queue) :
               search_queue[i] = jobs[j].content_id

\* the payload one attempt builds: execution n of the task in slot j, on
\* source src
AttemptPayload(j, n, src) ==
    [processed_urls |-> [q \in Rungs |-> UploadedUrl(j, n, q)],
     thumbnail_url |-> UploadedUrl(j, n, "thumbnail"),
     video_metadata |-> get_video_metadata(src),
     processing_status |-> "completed"]

\* no attempt that can write to row c is queued or running
AttemptsEnded(c) ==
    \A j \in Jobs : jobs[j].content_id = c => jobs[j].state \in {"success", "failure"}

\* C28: a row's metadata is unset or is, in all its parts, what one single
\* attempt produced, also while a redelivered attempt of the same task runs
\* beside the first; once the attempts on the row have ended it is the
\* payload of the publish that came last.
C28_BlobFromOneAttempt ==
    \A c \in Contents :
        /\ content_metadata[c] # Null =>
               \E j \in Jobs, n \in 1..(max_retries + 1) :
                   content_metadata[c] = AttemptPayload(j, n, jobs[j].source)
        /\ (AttemptsEnded(c) /\ publishLog[c] # <<>>) =>
               LET last == publishLog[c][Len(publishLog[c])] IN
               /\ content_metadata[c] # Null
               /\ content_metadata[c].processed_urls = last.processed_urls
               /\ content_metadata[c].thumbnail_url = last.thumbnail_url
               /\ content_metadata[c].video_metadata = last.video_metadata

\* a task and its redelivery, on the same source and row, have both
\* published and returned
C28_Witness ==
    \E c \in Contents, j, k \in Jobs :
        /\ j # k
        /\ jobs[j].source = jobs[k].source
        /\ jobs[j].content_id = c /\ jobs[k].content_id = c
        /\ jobs[j].state = "success" /\ jobs[k].state = "success"
        /\ Len(publishLog[c]) = 2

\* an upload the ingress has to refuse: a tag that is neither video nor
\* presentation, a MIME type off the tag's allow-list, or a size over the
\* ceiling
Invalid(f) ==
    \/ f.content_type \notin {"video", "presentation"}
    \/ f.content_type = "video" /\ f.mime \notin {"video/mp4", "video/webm"}
    \/ f.content_type = "presentation"
       /\ f.mime \notin {"application/vnd.ms-powerpoint",
                         "application/vnd.openxmlformats-officedocument.presentationml.presentation",
                         "application/pdf"}
    \/ f.size > 2 * 1024 * 1024

\* C25: an upload with a bad tag, a MIME type off its tag's allow-list or a
\* size over the ceiling is answered with a 4xx status and neither writes an
\* object nor queues a task; every stored object passed the checks, and a
\* task queued by the ingress belongs to a stored object tagged video.
C25_RejectedUploadLeavesNoTrace ==
    /\ [](\A i \in 1..Len(objects) : ~Invalid(objects[i]))
    /\ [](\A j \in Jobs :
            jobs[j].origin = "upload"
            => \E i \in 1..Len(objects) :
                   /\ objects[i].url = jobs[j].source
                   /\ objects[i].content_type = "video")
    /\ [][ \A j \in Jobs, f \in UploadFiles, stored \in BOOLEAN :
             (Invalid(f) /\ upload_content(j, f, stored))
             => /\ response'.status \in {400, 413}
                /\ objects' = objects
                /\ jobs' = jobs
         ]_vars

\* a video and a presentation are stored, one task is queued, and the
\* latest upload was refused for its size
C25_Witness ==
    /\ response # Null
    /\ response.status = 413
    /\ \E i, k \in 1..Len(objects) :
           /\ objects[i].content_type = "video"
           /\ objects[k].content_type = "presentation"
    /\ Cardinality({j \in Jobs : jobs[j].origin = "upload"}) = 1

\* C26: a stream request of an enrolled user for processed content gets,
\* for "Range: bytes=s-e" with 0 <= s <= e < size, status 206 with
\* Content-Range "bytes s-e/size", Accept-Ranges bytes, Content-Length
\* e - s + 1 and an upstream fetch of exactly bytes s..e, and without a Range
\* header status 200 with the whole object.
C26_RangeRoundTrip ==
    ( /\ stream # Null
      /\ stream.via = "stream_video"
      /\ stream.processed
      /\ <<stream.user, CourseOf(stream.content)>> \in Enrolled )
    => /\ stream.header = <<>>
          => /\ stream.response.status = 200
             /\ stream.response.body = <<0, stream.size - 1>>
       /\ \A s, e \in 0..MaxByte :
              (stream.header = RangeHeader(s, e) /\ s <= e /\ e < stream.size)
              => /\ stream.response.status = 206
                 /\ stream.response.content_range = <<s, e, stream.size>>
                 /\ stream.response.accept_ranges = "bytes"
                 /\ stream.response.content_length = e - s + 1
                 /\ stream.response.fetch = <<s, e>>

\* a Range header with a bound that is no number, with its start after its
\* end, or with a bound outside an object of size bytes
Malformed(h, size) ==
    \/ \E a, b \in RangeParts :
           /\ h = <<"bytes=">> \o a \o <<"-">> \o b
           /\ a = <<"x">> \/ b = <<"x">>
    \/ \E s, e \in 0..MaxByte :
           h = RangeHeader(s, e) /\ (s > e \/ e >= size \/ s >= size)

\* C27: stream_with_range answers a malformed Range header with a 4xx
\* status; it never answers 206 with a Content-Length of zero or less or
\* with a Content-Range outside the object, and never with an unhandled
\* error.
C27_MalformedRangeRejected ==
    (stream # Null /\ stream.via = "stream_with_range")
    => /\ Malformed(stream.header, stream.size)
          => stream.response.status \in 400..499
       /\ stream.response.status = 206
          => /\ stream.response.content_length > 0
             /\ stream.response.content_range[1] >= 0
             /\ stream.response.content_range[2] < stream.size
       /\ stream.response.status # 500
=============================================================================
